---- MODULE Spec2Model ----
(***************************************************************************)
(* Model of fermat_utils.py: the error metrics, the batch generator        *)
(* generate_test_cases and the near-solution search find_near_solutions.   *)
(*                                                                         *)
(* A behaviour is one caller session: a script of calls, fixed in Init, is *)
(* executed call after call; every loop iteration of a call is one step.   *)
(* A finished call leaves its outcome in "returned": the value returned or *)
(* the exception raised (with the loop position, exponent index and pair,  *)
(* at which it was raised).                                                *)
(* Integers are Python integers (unbounded); the bounds below keep every   *)
(* intermediate value far inside TLC's 32-bit range.                       *)
(*                                                                         *)
(* Floating point.  Two places of the code use floats:                     *)
(*  - (a**n + b**n)**(1/n) followed by int(): the truncated root.  Within  *)
(*    the bounds the root of a number that is not a perfect n-th power is  *)
(*    more than 2^-40 away from the next integer, so its truncation is the *)
(*    true floor; the root of a perfect power r^n may come out as r or as  *)
(*    a value just below r, depending on the platform's pow.  The variable *)
(*    pow_below fixes, for a whole behaviour, which of the two happens.    *)
(*  - relative errors and thresholds.  They are kept as exact fractions;   *)
(*    within the bounds two distinct fractions never round to one double.  *)
(***************************************************************************)
EXTENDS Integers, Sequences, FiniteSets, TLC

\* ---------------------------------------------------------------- bounds
MaxValue == 13      \* largest max_value of the single-exponent calls
MaxSmall == 3       \* largest max_value of the multi-exponent calls
MaxN     == 3       \* largest exponent
MaxLen   == 2       \* longest n_values list
MaxPair  == 3       \* largest max_value in the two-call sessions

\* min(max_value, 30): the cap of the grid stage
limitCap == 30

\* ------------------------------------------------------- pure arithmetic
RECURSIVE Pow(_, _)
\* x**n for an exponent n >= 0, on integers
Pow(x, n) == IF n = 0 THEN 1 ELSE x * Pow(x, n - 1)

Abs(x) == IF x < 0 THEN 0 - x ELSE x

Min(x, y) == IF x <= y THEN x ELSE y

RECURSIVE Gcd(_, _)
Gcd(x, y) == IF y = 0 THEN x ELSE Gcd(y, x % y)

\* The value of the float num/den, kept as the fraction in lowest terms.
Frac(num, den) ==
  LET g == Gcd(num, den) IN [num |-> num \div g, den |-> den \div g]

\* frac <= thr, both fractions with positive denominators
FracLeq(frac, thr) == frac.num * thr.den <= thr.num * frac.den

\* |a^n + b^n - c^n|
fermat_difference(a, b, c, n) == Abs(Pow(a, n) + Pow(b, n) - Pow(c, n))

\* |a^n + b^n - c^n| / c^n ; c = 0 is a ZeroDivisionError in the code
fermat_relative_error(a, b, c, n) ==
  Frac(Abs(Pow(a, n) + Pow(b, n) - Pow(c, n)), Pow(c, n))

\* The floor of the real n-th root of a^n + b^n (n >= 1): it lies in
\* max(a,b) .. a+b.
FloorRoot(a, b, n) ==
  LET x == Pow(a, n) + Pow(b, n)
  IN  CHOOSE r \in 1..(a + b) : Pow(r, n) <= x /\ x < Pow(r + 1, n)

\* IntRoot off by one: int(c_float) - 1
IntRootMinusOne(a, b, n, below) == FloorRoot(a, b, n) - 1

\* int((a**n + b**n)**(1/n)) for n >= 1.  1/n is 1.0 for n = 1 and pow(x, 1.0)
\* is x; for n >= 2 the root of a perfect power r^n truncates to r - 1 on a
\* platform whose pow returns a value just below r.
IntRoot(a, b, n, below) ==
  LET r == FloorRoot(a, b, n)
  IN  IF below /\ n >= 2 /\ Pow(r, n) = Pow(a, n) + Pow(b, n) THEN r - 1 ELSE r

\* int((a**n + b**n)**(1/n)) for n < 0: with m = -n the root is
\* (a^m b^m / (a^m + b^m))^(1/m) < min(a, b); for a = b = 1 it is 2^(1/n) < 1.
IntRootNeg(a, b, n) ==
  LET m == 0 - n
      p == Pow(a, m) * Pow(b, m)
      s == Pow(a, m) + Pow(b, m)
  IN  CHOOSE r \in 0..Min(a, b) : Pow(r, m) * s <= p /\ p < Pow(r + 1, m) * s

\* int(np.sqrt(c_squared)): IEEE sqrt is correctly rounded, so the truncation
\* is the integer square root for every c_squared below 2^52.
IntSqrt(c_squared) ==
  CHOOSE r \in 0..c_squared : r * r <= c_squared /\ c_squared < (r + 1) * (r + 1)

\* ------------------------------------------------------------ the inputs
RECURSIVE SeqsUpTo(_, _)
\* all sequences over S of length at most k
SeqsUpTo(S, k) ==
  IF k = 0 THEN {<<>>}
  ELSE LET shorter == SeqsUpTo(S, k - 1)
       IN  shorter \cup {Append(s, x) : s \in shorter, x \in S}

Exponents == (0 - 1)..MaxN

\* error_threshold values; 1/10 is the default of find_near_solutions
DefaultThreshold == [num |-> 1, den |-> 10]
Thresholds ==
  {[num |-> 0, den |-> 1], [num |-> 1, den |-> 100], DefaultThreshold,
   [num |-> 1, den |-> 2], [num |-> 1, den |-> 1]}

GenRequest(mv, ns) ==
  [fn |-> "generate_test_cases", max_value |-> mv, n_values |-> ns]

NearRequest(mv, e, t) ==
  [fn |-> "find_near_solutions", max_value |-> mv, n |-> e, error_threshold |-> t]

GenRequests ==
  {GenRequest(mv, ns) : mv \in (0 - 1)..MaxSmall, ns \in SeqsUpTo(Exponents, MaxLen)}
  \cup {GenRequest(mv, <<e>>) : mv \in 1..MaxValue, e \in 1..MaxN}
  \cup {GenRequest(limitCap + 1, <<e>>) : e \in 1..MaxN}

NearRequests ==
  {NearRequest(mv, e, t) : mv \in (0 - 1)..MaxValue, e \in 0..MaxN, t \in Thresholds}
  \cup {NearRequest(limitCap + 1, e, DefaultThreshold) : e \in 1..MaxN}

\* two-call sessions: the same function on the same max_value and exponents,
\* or generate_test_cases on a list and then on one exponent of that list
PairGen == {GenRequest(mv, ns) : mv \in 0..MaxPair, ns \in SeqsUpTo(Exponents, MaxLen)}
PairNear == {NearRequest(mv, e, t) : mv \in 0..MaxPair, e \in 0..MaxN, t \in Thresholds}
PairScripts ==
  {<<r, r>> : r \in PairGen}
  \cup {<<p[1], GenRequest(p[1].max_value, <<p[2]>>)>> :
          p \in {q \in PairGen \X Exponents :
                   \E j \in 1..Len(q[1].n_values) : q[1].n_values[j] = q[2]}}
  \cup {<<p[1], p[2]>> : p \in {q \in PairNear \X PairNear :
                                     /\ q[1].max_value = q[2].max_value
                                     /\ q[1].n = q[2].n}}

\* ------------------------------------------------------------- the state
VARIABLES
  script,          \* the calls of the session, in order
  ip,              \* index of the call being executed, or of the next one
  returned,        \* outcome of every finished call, in order
  pow_below,       \* the platform's pow returns a value just below r for r^n
  pc,              \* position: idle, for_n, grid, exact, store, near, near_ret
  max_value,       \* argument of the running call
  n_values,        \* argument of generate_test_cases
  k,               \* position of the for loop over n_values
  n,               \* current exponent
  a, b,            \* current pair of the running loop
  data,            \* rows collected for the current exponent
  results,         \* dict exponent -> rows
  error_threshold, \* argument of find_near_solutions
  near_solutions   \* rows collected by find_near_solutions

vars == <<script, ip, returned, pow_below, pc, max_value, n_values, k, n, a, b,
          data, results, error_threshold, near_solutions>>

NoThreshold == [num |-> 0, den |-> 1]

\* the empty dict
EmptyDict == [e \in {} |-> <<>>]

InitFrame ==
  /\ ip = 1
  /\ returned = <<>>
  /\ pow_below \in BOOLEAN
  /\ pc = "idle"
  /\ max_value = 0
  /\ n_values = <<>>
  /\ k = 0
  /\ n = 0
  /\ a = 0
  /\ b = 0
  /\ data = <<>>
  /\ results = EmptyDict
  /\ error_threshold = NoThreshold
  /\ near_solutions = <<>>

Init ==
  /\ script \in {<<r>> : r \in GenRequests \cup NearRequests}
  /\ InitFrame

InitPair ==
  /\ script \in PairScripts
  /\ InitFrame

\* ------------------------------------------------- generate_test_cases
\* limit with max for min
limitMax == IF max_value >= limitCap THEN max_value ELSE limitCap

\* limit without the cap
limitUncapped == max_value

\* limit = min(max_value, 30)
limit == Min(max_value, limitCap)

\* One row of a result set.
Row(ra, rb, rc, err, rel, e) ==
  [a |-> ra, b |-> rb, c |-> rc, error |-> err, relative_error |-> rel, n |-> e]

\* Select with the comparison of the two errors reversed
SelectWorse(ra, rb, e, below) ==
  LET c_low      == IntRoot(ra, rb, e, below)
      c_high     == c_low + 1
      error_low  == fermat_difference(ra, rb, c_low, e)
      error_high == fermat_difference(ra, rb, c_high, e)
  IN  IF error_low >= error_high /\ c_low > 0
        THEN <<Row(ra, rb, c_low, error_low, fermat_relative_error(ra, rb, c_low, e), e)>>
      ELSE IF c_high > 0
        THEN <<Row(ra, rb, c_high, error_high, fermat_relative_error(ra, rb, c_high, e), e)>>
      ELSE <<>>

\* Select that trusts the truncated root: c_high is never tried
SelectLowOnly(ra, rb, e, below) ==
  LET c_low     == IntRoot(ra, rb, e, below)
      error_low == fermat_difference(ra, rb, c_low, e)
  IN  IF c_low > 0
        THEN <<Row(ra, rb, c_low, error_low, fermat_relative_error(ra, rb, c_low, e), e)>>
        ELSE <<>>

\* The best of the two bracket candidates of the pair (ra, rb), n >= 1:
\* c_low unless its error is larger or it is not positive, else c_high when
\* that is positive, else no candidate.
Select(ra, rb, e, below) ==
  LET c_low      == IntRoot(ra, rb, e, below)
      c_high     == c_low + 1
      error_low  == fermat_difference(ra, rb, c_low, e)
      error_high == fermat_difference(ra, rb, c_high, e)
  IN  IF error_low <= error_high /\ c_low > 0
        THEN <<Row(ra, rb, c_low, error_low, fermat_relative_error(ra, rb, c_low, e), e)>>
      ELSE IF c_high > 0
        THEN <<Row(ra, rb, c_high, error_high, fermat_relative_error(ra, rb, c_high, e), e)>>
      ELSE <<>>

\* Rejected with the exponent test off by one
RejectedFromFour(row) ==
  row.n > 3 /\ ~FracLeq(row.relative_error, [num |-> 1, den |-> 10])

\* if n > 2 and rel_error > 0.1: continue
Rejected(row) == row.n > 2 /\ ~FracLeq(row.relative_error, [num |-> 1, den |-> 10])

\* The rows one iteration of the grid loop appends to data.
GridRows(ra, rb, e, below) ==
  LET sel == Select(ra, rb, e, below)
  IN  IF sel # <<>> /\ ~Rejected(sel[1]) THEN sel ELSE <<>>

\* ExactRows with c < max_value for c <= max_value
ExactRowsStrict(ra, rb, mv) ==
  LET c_squared == ra * ra + rb * rb
      c         == IntSqrt(c_squared)
  IN  IF c * c = c_squared /\ c < mv
        THEN <<Row(ra, rb, c, 0, [num |-> 0, den |-> 1], 2)>>
        ELSE <<>>

\* ExactRows without the test c <= max_value
ExactRowsUnbounded(ra, rb, mv) ==
  LET c_squared == ra * ra + rb * rb
      c         == IntSqrt(c_squared)
  IN  IF c * c = c_squared
        THEN <<Row(ra, rb, c, 0, [num |-> 0, den |-> 1], 2)>>
        ELSE <<>>

\* The rows one iteration of the n = 2 exact pass appends to data.
ExactRows(ra, rb, mv) ==
  LET c_squared == ra * ra + rb * rb
      c         == IntSqrt(c_squared)
  IN  IF c * c = c_squared /\ c <= mv
        THEN <<Row(ra, rb, c, 0, [num |-> 0, den |-> 1], 2)>>
        ELSE <<>>

\* The evaluation of the pair (ra, rb) raises ZeroDivisionError: 1/n for
\* n = 0, and 0**n in fermat_difference(a, b, c_low, n) for n < 0, c_low = 0.
GridRaises(ra, rb, e) == e = 0 \/ (e < 0 /\ IntRootNeg(ra, rb, e) = 0)

\* A call ends with the outcome given.  Its locals are dead: they stay as they
\* are until the next call initialises them.
Leave(outcome) ==
  /\ returned' = Append(returned, outcome)
  /\ ip' = ip + 1
  /\ pc' = "idle"
  /\ UNCHANGED <<script, pow_below, max_value, n_values, k, n, a, b, data,
                 results, error_threshold, near_solutions>>

\* generate_test_cases(max_value, n_values) is called: results = {}
CallGenerate ==
  /\ pc = "idle"
  /\ ip <= Len(script)
  /\ script[ip].fn = "generate_test_cases"
  /\ max_value' = script[ip].max_value
  /\ n_values' = script[ip].n_values
  /\ results' = EmptyDict
  /\ k' = 1
  /\ pc' = "for_n"
  /\ UNCHANGED <<script, ip, returned, pow_below, n, a, b, data,
                 error_threshold, near_solutions>>

\* NextExponent with data = [] missing: the list outlives the iteration
NextExponentStale ==
  /\ pc = "for_n"
  /\ k <= Len(n_values)
  /\ n' = n_values[k]
  /\ IF limit >= 1
       THEN a' = 1 /\ b' = 1 /\ pc' = "grid"
       ELSE a' = 0 /\ b' = 0 /\ pc' = "store"
  /\ UNCHANGED <<script, ip, returned, pow_below, max_value, n_values, k, data,
                 results, error_threshold, near_solutions>>

\* for n in n_values: data = []; the grid loop starts unless it is empty
NextExponent ==
  /\ pc = "for_n"
  /\ k <= Len(n_values)
  /\ n' = n_values[k]
  /\ data' = <<>>
  /\ IF limit >= 1
       THEN a' = 1 /\ b' = 1 /\ pc' = "grid"
       ELSE a' = 0 /\ b' = 0 /\ pc' = "store"
  /\ UNCHANGED <<script, ip, returned, pow_below, max_value, n_values, k,
                 results, error_threshold, near_solutions>>

\* GridStep with the test n == 2 missing: the exact pass follows every grid
GridStepAlwaysExact ==
  /\ pc = "grid"
  /\ n >= 1
  /\ data' = data \o GridRows(a, b, n, pow_below)
  /\ IF b < limit THEN a' = a /\ b' = b + 1 /\ pc' = "grid"
     ELSE IF a < limit THEN a' = a + 1 /\ b' = 1 /\ pc' = "grid"
     ELSE a' = 1 /\ b' = 1 /\ pc' = "exact"
  /\ UNCHANGED <<script, ip, returned, pow_below, max_value, n_values, k, n,
                 results, error_threshold, near_solutions>>

\* One iteration of: for a, b in product(range(1, limit+1), range(1, limit+1))
GridStep ==
  /\ pc = "grid"
  /\ n >= 1
  /\ data' = data \o GridRows(a, b, n, pow_below)
  /\ IF b < limit THEN a' = a /\ b' = b + 1 /\ pc' = "grid"
     ELSE IF a < limit THEN a' = a + 1 /\ b' = 1 /\ pc' = "grid"
     ELSE IF n = 2 THEN a' = 1 /\ b' = 1 /\ pc' = "exact"
     ELSE a' = 0 /\ b' = 0 /\ pc' = "store"
  /\ UNCHANGED <<script, ip, returned, pow_below, max_value, n_values, k, n,
                 results, error_threshold, near_solutions>>

\* The iteration raises: the exception leaves generate_test_cases, and the
\* result sets built so far are lost with its frame.
GridRaise ==
  /\ pc = "grid"
  /\ n <= 0
  /\ GridRaises(a, b, n)
  /\ Leave([kind |-> "raise", exc |-> "ZeroDivisionError", at |-> <<k, a, b>>])

\* One iteration of: for a in range(1, max_value+1): for b in range(a, max_value+1)
ExactStep ==
  /\ pc = "exact"
  /\ data' = data \o ExactRows(a, b, max_value)
  /\ IF b < max_value THEN a' = a /\ b' = b + 1 /\ pc' = "exact"
     ELSE IF a < max_value THEN a' = a + 1 /\ b' = a + 1 /\ pc' = "exact"
     ELSE a' = 0 /\ b' = 0 /\ pc' = "store"
  /\ UNCHANGED <<script, ip, returned, pow_below, max_value, n_values, k, n,
                 results, error_threshold, near_solutions>>

\* StoreResults on one list shared by all exponents
StoreResultsAll ==
  /\ pc = "store"
  /\ results' = [e \in DOMAIN results \cup {n} |-> data]
  /\ k' = k + 1
  /\ pc' = "for_n"
  /\ UNCHANGED <<script, ip, returned, pow_below, max_value, n_values, n, a, b,
                 data, error_threshold, near_solutions>>

\* results[n] = pd.DataFrame(data)
StoreResults ==
  /\ pc = "store"
  /\ results' = [e \in DOMAIN results \cup {n} |-> IF e = n THEN data ELSE results[e]]
  /\ k' = k + 1
  /\ pc' = "for_n"
  /\ UNCHANGED <<script, ip, returned, pow_below, max_value, n_values, n, a, b,
                 data, error_threshold, near_solutions>>

\* return results
ReturnResults ==
  /\ pc = "for_n"
  /\ k > Len(n_values)
  /\ Leave([kind |-> "return", value |-> results])

\* ------------------------------------------------- find_near_solutions
NearRow(ra, rb, rc, e) ==
  [a |-> ra, b |-> rb, c |-> rc, error |-> fermat_difference(ra, rb, rc, e),
   relative_error |-> fermat_relative_error(ra, rb, rc, e)]

\* c_candidates = [int(c_approx), int(c_approx) + 1]
Candidates(ra, rb, e, below) ==
  LET c_approx == IntRoot(ra, rb, e, below) IN <<c_approx, c_approx + 1>>

\* NearRows with c >= max_value skipped, for c > max_value
NearRowsBelowMax(ra, rb, rc, e, mv, thr) ==
  IF rc <= 0 \/ rc >= mv THEN <<>>
  ELSE IF FracLeq(fermat_relative_error(ra, rb, rc, e), thr)
         THEN <<NearRow(ra, rb, rc, e)>>
         ELSE <<>>

\* NearRows without the threshold test
NearRowsUnfiltered(ra, rb, rc, e, mv, thr) ==
  IF rc <= 0 \/ rc > mv THEN <<>> ELSE <<NearRow(ra, rb, rc, e)>>

\* NearRows with the threshold test reversed
NearRowsReversed(ra, rb, rc, e, mv, thr) ==
  IF rc <= 0 \/ rc > mv THEN <<>>
  ELSE IF FracLeq(thr, fermat_relative_error(ra, rb, rc, e))
         THEN <<NearRow(ra, rb, rc, e)>>
         ELSE <<>>

\* The row the candidate rc appends to near_solutions, if any.
NearRows(ra, rb, rc, e, mv, thr) ==
  IF rc <= 0 \/ rc > mv THEN <<>>
  ELSE IF FracLeq(fermat_relative_error(ra, rb, rc, e), thr)
         THEN <<NearRow(ra, rb, rc, e)>>
         ELSE <<>>

\* find_near_solutions(max_value, n, error_threshold) is called
CallFindNear ==
  /\ pc = "idle"
  /\ ip <= Len(script)
  /\ script[ip].fn = "find_near_solutions"
  /\ max_value' = script[ip].max_value
  /\ n' = script[ip].n
  /\ error_threshold' = script[ip].error_threshold
  /\ near_solutions' = <<>>
  /\ IF script[ip].max_value >= 1
       THEN a' = 1 /\ b' = 1 /\ pc' = "near"
       ELSE a' = 0 /\ b' = 0 /\ pc' = "near_ret"
  /\ UNCHANGED <<script, ip, returned, pow_below, n_values, k, data, results>>

\* One iteration of the two nested loops over a and b, both candidates.
NearStep ==
  /\ pc = "near"
  /\ n >= 1
  /\ LET cs == Candidates(a, b, n, pow_below)
     IN  near_solutions' = near_solutions
                             \o NearRows(a, b, cs[1], n, max_value, error_threshold)
                             \o NearRows(a, b, cs[2], n, max_value, error_threshold)
  /\ IF b < max_value THEN a' = a /\ b' = b + 1 /\ pc' = "near"
     ELSE IF a < max_value THEN a' = a + 1 /\ b' = 1 /\ pc' = "near"
     ELSE a' = 0 /\ b' = 0 /\ pc' = "near_ret"
  /\ UNCHANGED <<script, ip, returned, pow_below, max_value, n_values, k, n,
                 data, results, error_threshold>>

\* c_approx = (a**n + b**n)**(1/n) raises ZeroDivisionError for n = 0
NearRaise ==
  /\ pc = "near"
  /\ n = 0
  /\ Leave([kind |-> "raise", exc |-> "ZeroDivisionError", at |-> <<1, a, b>>])

\* return near_solutions
NearReturn ==
  /\ pc = "near_ret"
  /\ Leave([kind |-> "return", value |-> near_solutions])

\* ------------------------------------------------------ specifications
Next ==
  \/ CallGenerate
  \/ NextExponent
  \/ GridStep
  \/ GridRaise
  \/ ExactStep
  \/ StoreResults
  \/ ReturnResults
  \/ CallFindNear
  \/ NearStep
  \/ NearRaise
  \/ NearReturn

\* one call per session
Spec == Init /\ [][Next]_vars

\* two calls per session
SpecPair == InitPair /\ [][Next]_vars

TypeOK ==
  /\ pc \in {"idle", "for_n", "grid", "exact", "store", "near", "near_ret"}
  /\ ip \in 1..(Len(script) + 1)
  /\ Len(returned) = ip - 1

\* ------------------------------------------------------- the outcomes
\* the finished calls of generate_test_cases that returned their dict
GenReturns ==
  {i \in 1..Len(returned) :
     script[i].fn = "generate_test_cases" /\ returned[i].kind = "return"}

\* the finished calls of find_near_solutions that returned their list
NearReturns ==
  {i \in 1..Len(returned) :
     script[i].fn = "find_near_solutions" /\ returned[i].kind = "return"}

Zero == [num |-> 0, den |-> 1]

\* The grid stage appends one row per pair when n = 2 (it never rejects one),
\* so the rows of the exact pass are those after the first limit^2.
GridCount(mv) == IF mv < 1 THEN 0 ELSE Min(mv, limitCap) * Min(mv, limitCap)

ExactPart(i) ==
  LET rows == returned[i].value[2]
  IN  SubSeq(rows, GridCount(script[i].max_value) + 1, Len(rows))

Has(rows, row) == \E j \in 1..Len(rows) : rows[j] = row

\* ------------------------------------------------------------- claims
\* C1: completeness of the n = 2 exact pass.  For every max_value >= 1 and
\* every pair a <= b in [1, max_value] whose a^2 + b^2 is the square of an
\* integer c <= max_value, the exact pass has appended the row
\* (a, b, c, error 0, relative_error 0, n 2); (3,4,5) is there whenever
\* max_value >= 5 and (5,12,13) whenever max_value >= 13.
C1_ExactPassComplete ==
  \A i \in GenReturns :
    LET mv == script[i].max_value
    IN  (mv >= 1 /\ 2 \in DOMAIN returned[i].value) =>
          LET rows == ExactPart(i)
          IN  /\ \A a0 \in 1..mv : \A b0 \in a0..mv : \A c0 \in 1..mv :
                   a0 * a0 + b0 * b0 = c0 * c0 => Has(rows, Row(a0, b0, c0, 0, Zero, 2))
              /\ mv >= 5 => Has(rows, Row(3, 4, 5, 0, Zero, 2))
              /\ mv >= 13 => Has(rows, Row(5, 12, 13, 0, Zero, 2))

\* a call with max_value >= 13 returned, (5,12,13) among its exact rows
C1_Witness ==
  \E i \in GenReturns :
    /\ script[i].max_value >= 13
    /\ 2 \in DOMAIN returned[i].value
    /\ Has(ExactPart(i), Row(5, 12, 13, 0, Zero, 2))

\* C2: soundness of the n = 2 exact pass.  Every row it appends satisfies
\* a^2 + b^2 = c^2 on the integers, with 1 <= a <= b <= max_value,
\* c <= max_value, a < c and b < c.
C2_ExactPassSound ==
  \A i \in GenReturns :
    2 \in DOMAIN returned[i].value =>
      LET rows == ExactPart(i)
          mv   == script[i].max_value
      IN  \A j \in 1..Len(rows) :
            LET r == rows[j]
            IN  /\ r.a * r.a + r.b * r.b = r.c * r.c
                /\ 1 <= r.a /\ r.a <= r.b /\ r.b <= mv
                /\ r.c <= mv
                /\ r.a < r.c /\ r.b < r.c

\* the exact pass of a returned call appended the non-primitive triple (6,8,10)
C2_Witness ==
  \E i \in GenReturns :
    /\ 2 \in DOMAIN returned[i].value
    /\ Has(ExactPart(i), Row(6, 8, 10, 0, Zero, 2))

\* C3: for every max_value and every exponent n > 2, every row of the result
\* set of n has 0 <= relative_error <= 0.1, that is
\* 10 * |a^n + b^n - c^n| <= c^n.
C3_FilterBound ==
  \A i \in GenReturns :
    \A e \in DOMAIN returned[i].value :
      e > 2 =>
        LET rows == returned[i].value[e]
        IN  \A j \in 1..Len(rows) :
              LET r == rows[j]
              IN  /\ r.n = e
                  /\ 10 * Abs(Pow(r.a, e) + Pow(r.b, e) - Pow(r.c, e)) <= Pow(r.c, e)
                  /\ r.relative_error.den > 0
                  /\ 0 <= r.relative_error.num
                  /\ 10 * r.relative_error.num <= r.relative_error.den

\* a result set of an exponent n > 2 was returned with a near-solution in it
C3_Witness ==
  \E i \in GenReturns :
    \E e \in DOMAIN returned[i].value :
      /\ e > 2
      /\ \E j \in 1..Len(returned[i].value[e]) : returned[i].value[e][j].error > 0

\* t.num/t.den bounds the relative error of (a0, b0, c0) for the exponent e
Within(a0, b0, c0, e, t) ==
  Abs(Pow(a0, e) + Pow(b0, e) - Pow(c0, e)) * t.den <= t.num * Pow(c0, e)

\* C4: find_near_solutions is an inclusive filter over the full grid.  For
\* every a, b in [1, max_value] and each of the two bracket candidates
\* c in {c_low, c_low + 1} with 1 <= c <= max_value, (a, b, c) is in the
\* returned list if and only if its relative error is <= error_threshold.
C4_InclusiveFilter ==
  \A i \in NearReturns :
    LET mv   == script[i].max_value
        e    == script[i].n
        t    == script[i].error_threshold
        rows == returned[i].value
    IN  \A a0 \in 1..mv : \A b0 \in 1..mv :
          LET c_low == IntRoot(a0, b0, e, pow_below)
          IN  \A c0 \in {c_low, c_low + 1} :
                (1 <= c0 /\ c0 <= mv) =>
                  ((\E j \in 1..Len(rows) :
                      rows[j].a = a0 /\ rows[j].b = b0 /\ rows[j].c = c0)
                   <=> Within(a0, b0, c0, e, t))

\* a search beyond the cap of 30 returned a row with a = 31 and both
\* candidates of one pair
C4_Witness ==
  \E i \in NearReturns :
    LET rows == returned[i].value
    IN  /\ script[i].max_value > limitCap
        /\ \E j \in 1..Len(rows) : rows[j].a > limitCap
        /\ \E j \in 1..Len(rows) : \E h \in 1..Len(rows) :
             rows[j].a = rows[h].a /\ rows[j].b = rows[h].b /\ rows[j].c < rows[h].c

\* C5: every triple find_near_solutions returns satisfies
\* |a^n + b^n - c^n| / c^n <= error_threshold.
C5_ReturnedWithinThreshold ==
  \A i \in NearReturns :
    LET rows == returned[i].value
    IN  \A j \in 1..Len(rows) :
          /\ rows[j].c >= 1
          /\ Within(rows[j].a, rows[j].b, rows[j].c, script[i].n, script[i].error_threshold)
          /\ FracLeq(rows[j].relative_error, script[i].error_threshold)

\* a search returned a triple that is not an exact solution
C5_Witness ==
  \E i \in NearReturns :
    \E j \in 1..Len(returned[i].value) : returned[i].value[j].error > 0

\* C6: every result set holds at most one row per (a, b) pair, the one of
\* n = 2 included, after the exact pass.
C6_OneRowPerPair ==
  \A i \in GenReturns :
    \A e \in DOMAIN returned[i].value :
      LET rows == returned[i].value[e]
      IN  \A j \in 1..Len(rows) : \A h \in 1..Len(rows) :
            (rows[j].a = rows[h].a /\ rows[j].b = rows[h].b) => j = h

\* C7: every row of every result set has 1 <= a, b, c <= max_value.
C7_RowsWithinMaxValue ==
  \A i \in GenReturns :
    \A e \in DOMAIN returned[i].value :
      LET rows == returned[i].value[e]
          mv   == script[i].max_value
      IN  \A j \in 1..Len(rows) :
            /\ 1 <= rows[j].a /\ rows[j].a <= mv
            /\ 1 <= rows[j].b /\ rows[j].b <= mv
            /\ 1 <= rows[j].c /\ rows[j].c <= mv

\* the configuration of call i is invalid
InvalidConfig(i) ==
  \/ script[i].max_value <= 0
  \/ \E j \in 1..Len(script[i].n_values) : script[i].n_values[j] <= 0

\* C8 as stated: a call of generate_test_cases with max_value <= 0 or an
\* exponent <= 0 ends with an InvalidBound error and returns no result set.
C8_InvalidBoundRaised ==
  \A i \in 1..Len(returned) :
    (script[i].fn = "generate_test_cases" /\ InvalidConfig(i)) =>
      (returned[i].kind = "raise" /\ returned[i].exc = "InvalidBound")

\* the first position of n_values that holds an exponent <= 0
FirstBad(ns) ==
  CHOOSE j \in 1..Len(ns) : ns[j] <= 0 /\ \A h \in 1..(j - 1) : ns[h] >= 1

\* C8 as amended: generate_test_cases checks nothing.  With max_value <= 0 it
\* evaluates no pair and returns, without error, an empty result set for
\* every exponent of n_values, whatever the exponents.  With max_value >= 1
\* and an exponent <= 0, a ZeroDivisionError is raised while the first pair
\* (1, 1) of the first such exponent is evaluated, and nothing is returned.
C8_NoBoundCheck ==
  /\ pc \in {"grid", "exact"} => max_value >= 1
  /\ (pc = "grid" /\ n <= 0) => (a = 1 /\ b = 1)
  /\ \A i \in 1..Len(returned) :
       script[i].fn = "generate_test_cases" =>
         LET mv == script[i].max_value
             ns == script[i].n_values
         IN  /\ mv <= 0 =>
                  /\ returned[i].kind = "return"
                  /\ DOMAIN returned[i].value = {ns[j] : j \in 1..Len(ns)}
                  /\ \A e \in DOMAIN returned[i].value : returned[i].value[e] = <<>>
             /\ (mv >= 1 /\ \E j \in 1..Len(ns) : ns[j] <= 0) =>
                  returned[i] = [kind |-> "raise", exc |-> "ZeroDivisionError",
                                 at |-> <<FirstBad(ns), 1, 1>>]

\* a call whose second exponent is <= 0 processed the first one and raised
C8_Witness ==
  \E i \in 1..Len(returned) :
    /\ script[i].fn = "generate_test_cases"
    /\ script[i].max_value >= 1
    /\ Len(script[i].n_values) = 2
    /\ script[i].n_values[1] = 2
    /\ script[i].n_values[2] <= 0
    /\ returned[i].kind = "raise"
    /\ 2 \in DOMAIN results

\* C9: for fixed max_value and n and thresholds t1 <= t2, every triple
\* find_near_solutions returns with t1 it also returns with t2.
C9_ThresholdMonotone ==
  \A i \in NearReturns : \A j \in NearReturns :
    (/\ script[i].max_value = script[j].max_value
     /\ script[i].n = script[j].n
     /\ FracLeq(script[i].error_threshold, script[j].error_threshold)) =>
      \A h \in 1..Len(returned[i].value) : Has(returned[j].value, returned[i].value[h])

\* two searches returned, the one with the larger threshold strictly more
C9_Witness ==
  \E i \in NearReturns : \E j \in NearReturns :
    /\ script[i].max_value = script[j].max_value
    /\ script[i].n = script[j].n
    /\ ~FracLeq(script[j].error_threshold, script[i].error_threshold)
    /\ Len(returned[i].value) > 0
    /\ Len(returned[j].value) > Len(returned[i].value)

\* C10: two calls of generate_test_cases with identical (max_value, n_values)
\* end with identical outcomes: the same rows in the same order for every n.
C10_Deterministic ==
  \A i \in 1..Len(returned) : \A j \in 1..Len(returned) :
    (script[i].fn = "generate_test_cases" /\ script[i] = script[j]) =>
      returned[i] = returned[j]

\* the second of two identical calls returned a non-empty result set
C10_Witness ==
  /\ Len(returned) = 2
  /\ script[1] = script[2]
  /\ 2 \in GenReturns
  /\ \E e \in DOMAIN returned[2].value : Len(returned[2].value[e]) > 0

\* C11: for n = 3 and the pair (3, 4) with max_value >= 4, the candidate
\* selected is c = 4 with absolute error 27 (34 for c = 5), and because
\* 27/64 > 0.1 no row with a = 3 and b = 4 is in the n = 3 result set.
C11_ThreeFourExcluded ==
  /\ (pc = "grid" /\ n = 3 /\ a = 3 /\ b = 4) =>
       LET sel == Select(a, b, n, pow_below)
       IN  /\ Len(sel) = 1
           /\ sel[1].c = 4
           /\ sel[1].error = 27
           /\ sel[1].relative_error = [num |-> 27, den |-> 64]
           /\ fermat_difference(a, b, 5, n) = 34
  /\ (pc = "grid" /\ n = 3 /\ (a > 3 \/ (a = 3 /\ b > 4))) =>
       \A j \in 1..Len(data) : ~(data[j].a = 3 /\ data[j].b = 4)
  /\ \A i \in GenReturns :
       (script[i].max_value >= 4 /\ 3 \in DOMAIN returned[i].value) =>
         \A j \in 1..Len(returned[i].value[3]) :
           ~(returned[i].value[3][j].a = 3 /\ returned[i].value[3][j].b = 4)

\* the grid stage of n = 3 has just passed the pair (3, 4), other pairs kept
C11_Witness ==
  /\ pc = "grid"
  /\ n = 3
  /\ a = 3
  /\ b = 5
  /\ max_value >= 5
  /\ Len(data) > 0

\* exact_count = len(df[df['error'] == 0])
ExactCount(rows) == Cardinality({j \in 1..Len(rows) : rows[j].error = 0})

\* C12: for every exponent n > 2 and every max_value no row of the result set
\* has error 0, so the exact-solution count reported for n > 2 is 0; for n = 2
\* with max_value >= 5 the count is greater than 0.
C12_NoExactBeyondTwo ==
  \A i \in GenReturns :
    \A e \in DOMAIN returned[i].value :
      /\ e > 2 =>
           /\ \A j \in 1..Len(returned[i].value[e]) : returned[i].value[e][j].error # 0
           /\ ExactCount(returned[i].value[e]) = 0
      /\ (e = 2 /\ script[i].max_value >= 5) => ExactCount(returned[i].value[e]) > 0

\* a non-empty result set of an exponent n > 2 was returned for max_value >= 5
C12_Witness ==
  \E i \in GenReturns :
    /\ script[i].max_value >= 5
    /\ \E e \in DOMAIN returned[i].value :
         e > 2 /\ Len(returned[i].value[e]) > 1 /\ ExactCount(returned[i].value[e]) = 0

\* |a0^e + b0^e - c0^e|, written out
Gap(a0, b0, c0, e) ==
  LET x == Pow(a0, e) + Pow(b0, e)
      y == Pow(c0, e)
  IN  IF x >= y THEN x - y ELSE y - x

\* The c the claim expects for (a0, b0): the floor of the real root when its
\* gap is not larger than the gap of the floor + 1, else the floor + 1.
BestOfTwo(a0, b0, e) ==
  LET lo == FloorRoot(a0, b0, e)
  IN  IF Gap(a0, b0, lo, e) <= Gap(a0, b0, lo + 1, e) THEN lo ELSE lo + 1

\* The step taken is an iteration of the grid loop on a valid exponent.
GridIteration == pc = "grid" /\ n >= 1 /\ pc' # "idle"

\* C13: in every iteration of the grid loop, n >= 1, the c selected is the
\* floor c_low of the real n-th root of a^n + b^n when
\* |a^n + b^n - c_low^n| <= |a^n + b^n - (c_low + 1)^n| and c_low + 1
\* otherwise, and the error of the row is the smaller of the two; the row is
\* appended unless n > 2 and its relative error exceeds 0.1.
C13_BestOfTwo ==
  [][GridIteration =>
       LET c     == BestOfTwo(a, b, n)
           lo    == FloorRoot(a, b, n)
           error == Min(Gap(a, b, lo, n), Gap(a, b, lo + 1, n))
       IN  /\ Gap(a, b, c, n) = error
           /\ IF n > 2 /\ 10 * error > Pow(c, n)
                THEN data' = data
                ELSE /\ Len(data') = Len(data) + 1
                     /\ SubSeq(data', 1, Len(data)) = data
                     /\ data'[Len(data')].a = a
                     /\ data'[Len(data')].b = b
                     /\ data'[Len(data')].n = n
                     /\ data'[Len(data')].c = c
                     /\ data'[Len(data')].error = error]_vars

\* the grid loop has just appended a row whose c is the floor + 1
C13_Witness ==
  /\ pc = "grid"
  /\ Len(data) > 0
  /\ LET r == data[Len(data)]
     IN  /\ r.c = FloorRoot(r.a, r.b, r.n) + 1
         /\ r.error > 0
         /\ r.n = n

\* a0^e + b0^e is the e-th power of the integer r
PerfectPower(a0, b0, e, r) == Pow(r, e) = Pow(a0, e) + Pow(b0, e)

\* C14: when a^n + b^n is a perfect n-th power r^n, the iteration of the grid
\* loop appends exactly one row for (a, b), with c = r and error 0, whether
\* the truncated root int(c_float) is r or r - 1.
C14_PerfectPowerOnce ==
  [][(GridIteration /\ PerfectPower(a, b, n, FloorRoot(a, b, n))) =>
       /\ IntRoot(a, b, n, pow_below) \in {FloorRoot(a, b, n), FloorRoot(a, b, n) - 1}
       /\ data' = Append(data, Row(a, b, FloorRoot(a, b, n), 0, Zero, n))]_vars

\* on a platform whose root of 25 truncates to 4, the grid loop of n = 2 has
\* just appended (3, 4, 5) with error 0
C14_Witness ==
  /\ pow_below
  /\ pc = "grid"
  /\ n = 2
  /\ IntRoot(3, 4, 2, pow_below) = 4
  /\ Len(data) > 0
  /\ data[Len(data)] = Row(3, 4, 5, 0, Zero, 2)

\* The grid loop of a valid exponent n <= 2 has just ended: data holds the
\* rows of the grid stage and nothing else.
GridDone == (pc = "store" /\ n = 1) \/ (pc = "exact" /\ n = 2 /\ a = 1 /\ b = 1)

\* C15: for a valid exponent n <= 2 (n = 1 or n = 2) the grid stage rejects
\* and skips nothing: with limit = min(max_value, 30) it emits exactly one
\* row for every (a, b) in [1, limit] x [1, limit], limit^2 rows in all, and
\* for no n does it evaluate a pair with a > 30 or b > 30.
C15_GridFullAndCapped ==
  /\ pc = "grid" =>
       /\ 1 <= a /\ a <= 30 /\ a <= max_value
       /\ 1 <= b /\ b <= 30 /\ b <= max_value
  /\ (GridDone /\ max_value >= 0) =>
       LET lim == IF max_value <= 30 THEN max_value ELSE 30
       IN  /\ Len(data) = lim * lim
           /\ \A a0 \in 1..lim : \A b0 \in 1..lim :
                LET r == data[(a0 - 1) * lim + b0]
                IN  r.a = a0 /\ r.b = b0 /\ r.n = n /\ r.c >= 1

\* with max_value = 31 the grid stage of n = 2 ended with 900 rows
C15_Witness ==
  /\ GridDone
  /\ n = 2
  /\ max_value > 30
  /\ Len(data) = 900

\* C16: for every a, b >= 1 and n >= 1 the truncated root is >= 1, so every c
\* on which fermat_relative_error is called by generate_test_cases and by
\* find_near_solutions is >= 1 (c^n is never 0), and the branch of
\* generate_test_cases without a valid candidate is never taken.
C16_PositiveC ==
  /\ (pc = "grid" /\ n >= 1) =>
       LET c_low == IntRoot(a, b, n, pow_below)
           sel   == Select(a, b, n, pow_below)
       IN  /\ a >= 1 /\ b >= 1
           /\ c_low >= 1
           /\ c_low > 0 \/ c_low + 1 > 0
           /\ sel # <<>>
           /\ sel[1].c >= 1
           /\ Pow(sel[1].c, n) >= 1
  /\ (pc = "near" /\ n >= 1) =>
       LET cs == Candidates(a, b, n, pow_below)
       IN  /\ a >= 1 /\ b >= 1
           /\ \A j \in 1..2 : cs[j] >= 1 /\ Pow(cs[j], n) >= 1
  /\ \A j \in 1..Len(data) : data[j].c >= 1
  /\ \A j \in 1..Len(near_solutions) : near_solutions[j].c >= 1

\* the smallest case: a result set was returned with the row of (1, 1), c = 1
C16_Witness ==
  \E i \in GenReturns :
    \E e \in DOMAIN returned[i].value :
      \E j \in 1..Len(returned[i].value[e]) :
        LET r == returned[i].value[e][j]
        IN  r.a = 1 /\ r.b = 1 /\ r.c = 1

\* C17: the result set generate_test_cases(max_value, n_values) returns for an
\* exponent n equals the one generate_test_cases(max_value, [n]) returns,
\* whatever other exponents n_values holds, in whatever order, n repeated or
\* not; and storing the result set of one exponent leaves the others as
\* they were.
C17_ExponentsIndependent ==
  /\ \A i \in GenReturns : \A j \in GenReturns :
       (/\ script[i].max_value = script[j].max_value
        /\ Len(script[j].n_values) = 1) =>
         LET e == script[j].n_values[1]
         IN  e \in DOMAIN returned[i].value =>
               returned[i].value[e] = returned[j].value[e]
  /\ \A i \in GenReturns :
       DOMAIN returned[i].value =
         {script[i].n_values[h] : h \in 1..Len(script[i].n_values)}

\* generate_test_cases returned non-empty result sets for two different
\* exponents, and then the same set for the second of them alone
C17_Witness ==
  /\ Len(returned) = 2
  /\ 1 \in GenReturns
  /\ 2 \in GenReturns
  /\ Len(script[1].n_values) = 2
  /\ script[1].n_values[1] # script[1].n_values[2]
  /\ script[2].n_values = <<script[1].n_values[2]>>
  /\ \A e \in DOMAIN returned[1].value : Len(returned[1].value[e]) > 0
  /\ returned[1].value[script[1].n_values[1]] # returned[1].value[script[1].n_values[2]]

\* No positive integer is closer to the root than c0: beyond a0 + b0 the gap
\* only grows, since c^e >= (a0 + b0)^e >= a0^e + b0^e there.
Closest(a0, b0, c0, e) ==
  \A c1 \in 1..(a0 + b0 + 1) : Gap(a0, b0, c0, e) <= Gap(a0, b0, c1, e)

\* C18: for every (a, b) of the grid and every n >= 1 the c selected by the
\* grid stage minimises |a^n + b^n - c^n| over all positive integers c, not
\* only over the two bracket candidates.
C18_GloballyOptimal ==
  /\ (pc = "grid" /\ n >= 1) =>
       LET sel == Select(a, b, n, pow_below)
       IN  /\ Len(sel) = 1
           /\ sel[1].error = Gap(a, b, sel[1].c, n)
           /\ Closest(a, b, sel[1].c, n)
  /\ \A i \in GenReturns :
       \A e \in DOMAIN returned[i].value :
         \A j \in 1..Len(returned[i].value[e]) :
           LET r == returned[i].value[e][j]
           IN  r.error = Gap(r.a, r.b, r.c, e) /\ Closest(r.a, r.b, r.c, e)

\* a result set was returned in which (2, 2) has c = 3, the floor + 1, and
\* (1, 1) has c = 1, the floor
C18_Witness ==
  \E i \in GenReturns :
    /\ 2 \in DOMAIN returned[i].value
    /\ \E j \in 1..Len(returned[i].value[2]) :
         LET r == returned[i].value[2][j] IN r.a = 2 /\ r.b = 2 /\ r.c = 3
    /\ \E j \in 1..Len(returned[i].value[2]) :
         LET r == returned[i].value[2][j] IN r.a = 1 /\ r.b = 1 /\ r.c = 1
====
